---------------------------- MODULE Spec2Model ----------------------------
(***************************************************************************)
(* Model of the travel planner's server side (the get_route tool, its     *)
(* aggregator getRouteAndDetails in its parallel and sequential variants, *)
(* and the five provider functions) and of the chat UI's submit handler   *)
(* talking to the POST handler.                                           *)
(*                                                                         *)
(* A JavaScript string is a sequence of pieces (TLA+ strings); the empty  *)
(* string is << >> and concatenation is \o.  The pieces "HI" and "LO"     *)
(* stand for a high and a low surrogate code unit.  A JSON number that is *)
(* only ever interpolated into text is carried as its decimal text.  An   *)
(* absent JSON property is a record without that field.                   *)
(***************************************************************************)
EXTENDS Integers, Sequences, FiniteSets, TLC

\* ------------------------------------------------------------------ bounds
\* Longest list of maneuver steps in a directions response.
MaxSteps == 6
\* Longest list of hotel entries in a places-search response.
MaxHotels == 2
\* Most submissions a chat session makes.
MaxSubmits == 2
\* Longest list of results in a popular-places search response.
MaxResults == 6

\* ------------------------------------------------------- program constants
\* slice(0, 5) of the places along the route
DisplayCap == 5
\* Math.min(searchResults.length, 5)
TopResults == 5
\* Math.floor(duration / 60)
SecondsPerMinute == 60

\* ----------------------------------------------------------------- strings
S(piece) == <<piece>>

NULL == [null |-> TRUE]

Min(a, b) == IF a <= b THEN a ELSE b

\* Array.prototype.join
RECURSIVE Join(_, _)
Join(strs, sep) ==
    IF Len(strs) = 0 THEN << >>
    ELSE IF Len(strs) = 1 THEN strs[1]
    ELSE strs[1] \o sep \o Join(Tail(strs), sep)

\* Array.prototype.slice(0, n)
Slice0(arr, n) == SubSeq(arr, 1, Min(Len(arr), n))

\* encodeURIComponent throws URIError exactly on a lone surrogate.
HasLoneSurrogate(s) ==
    \E i \in 1..Len(s) :
        \/ s[i] = "HI" /\ (i = Len(s) \/ s[i + 1] # "LO")
        \/ s[i] = "LO" /\ (i = 1 \/ s[i - 1] # "HI")

\* How a call of an async function ends: its promise is fulfilled with a
\* value or rejected.
Return(v) == [threw |-> FALSE, value |-> v]
Throw(e) == [threw |-> TRUE, value |-> [error |-> e]]

Failure(msg) == [success |-> FALSE, message |-> S(msg)]

\* ---------------------------------------------------------------- providers
\* resp is what axios.get yields: [kind |-> "error"] (the call rejects) or
\* [kind |-> "ok", data |-> ...].

getCoordinates(location, resp) ==
    IF HasLoneSurrogate(location) THEN Throw("URIError")
    ELSE IF resp.kind = "error" THEN Return(NULL)
    ELSE IF Len(resp.data.features) = 0 THEN Return(NULL)
    ELSE LET c == resp.data.features[1].geometry.coordinates
         IN  Return([lat |-> c[2], lon |-> c[1]])

StepHasName(step) == "name" \in DOMAIN step /\ step.name # << >>

RoutePlace(step) ==
    [name |-> step.name,
     instruction |-> step.maneuver.instruction,
     distance |-> step.distance,
     duration |-> step.duration]

\* (distance / 1000).toFixed(2), for a whole number of metres not ending in
\* 5 (where the binary fraction decides the rounding).
ToFixed2Km(metres) ==
    LET q == (metres + 5) \div 10
        frac == q % 100
    IN  <<ToString(q \div 100), ".",
          IF frac < 10 THEN "0" \o ToString(frac) ELSE ToString(frac)>>

\* Mutant: the instruction is pushed inside the name check, so only named
\* steps contribute to the directions.
ExtractRoute_DirectionsOfNamed(bestRoute) ==
    IF Len(bestRoute.legs) = 0
       \/ \E i \in 1..Len(bestRoute.legs[1].steps) :
              "maneuver" \notin DOMAIN bestRoute.legs[1].steps[i]
    THEN Return(Failure("Failed to get route details from Mapbox."))
    ELSE LET named == SelectSeq(bestRoute.legs[1].steps, StepHasName)
             directions == [i \in 1..Len(named) |-> named[i].maneuver.instruction]
             places == [i \in 1..Len(named) |-> RoutePlace(named[i])]
         IN  Return([success |-> TRUE,
                     duration |-> <<ToString(bestRoute.duration \div SecondsPerMinute), " minutes">>,
                     distance |-> ToFixed2Km(bestRoute.distance) \o S(" km"),
                     directions |-> Join(directions, S(" -> ")),
                     places |-> places])

\* The body of getRouteDetails from bestRoute on.
ExtractRoute(bestRoute) ==
    IF Len(bestRoute.legs) = 0
       \/ \E i \in 1..Len(bestRoute.legs[1].steps) :
              "maneuver" \notin DOMAIN bestRoute.legs[1].steps[i]
    THEN \* TypeError inside the try block
         Return(Failure("Failed to get route details from Mapbox."))
    ELSE LET steps == bestRoute.legs[1].steps
             directions == [i \in 1..Len(steps) |-> steps[i].maneuver.instruction]
             named == SelectSeq(steps, StepHasName)
             places == [i \in 1..Len(named) |-> RoutePlace(named[i])]
         IN  Return([success |-> TRUE,
                     duration |-> <<ToString(bestRoute.duration \div SecondsPerMinute), " minutes">>,
                     distance |-> ToFixed2Km(bestRoute.distance) \o S(" km"),
                     directions |-> Join(directions, S(" -> ")),
                     places |-> places])

\* Mutant: no check for an empty route list, so routes[0] is undefined and
\* the TypeError lands in the catch block.
getRouteDetails_NoEmptyCheck(originCoords, destinationCoords, mode, resp) ==
    IF resp.kind = "error"
       \/ "routes" \notin DOMAIN resp.data \/ Len(resp.data.routes) = 0
    THEN Return(Failure("Failed to get route details from Mapbox."))
    ELSE ExtractRoute(resp.data.routes[1])

getRouteDetails(originCoords, destinationCoords, mode, resp) ==
    IF resp.kind = "error"
    THEN Return(Failure("Failed to get route details from Mapbox."))
    ELSE IF "routes" \notin DOMAIN resp.data \/ Len(resp.data.routes) = 0
    THEN Return(Failure("No routes found. Please check the origin and destination."))
    ELSE ExtractRoute(resp.data.routes[1])

PopularPlace(summary) ==
    [title |-> summary.data.title,
     description |-> summary.data.extract,
     url |-> summary.data.content_urls.desktop.page]

\* Mutant: a summary is fetched for every search result, not only the top 5.
getPopularPlaces_NoCap(location, resp) ==
    IF HasLoneSurrogate(location) THEN Throw("URIError")
    ELSE IF resp.search.kind = "error"
    THEN Return(Failure("Failed to get popular places from Wikipedia."))
    ELSE IF "search" \notin DOMAIN resp.search.data.query
            \/ Len(resp.search.data.query.search) = 0
    THEN Return(Failure("No popular places found at the destination."))
    ELSE LET searchResults == resp.search.data.query.search
             n == Len(searchResults)
         IN  IF \E i \in 1..n :
                    \/ HasLoneSurrogate(searchResults[i].title)
                    \/ resp.summaries[i].kind = "error"
             THEN Return(Failure("Failed to get popular places from Wikipedia."))
             ELSE Return([success |-> TRUE,
                          places |-> [i \in 1..n |-> PopularPlace(resp.summaries[i])]])

\* resp.search answers the search request, resp.summaries[i] the summary
\* request for the i-th search result.
getPopularPlaces(location, resp) ==
    IF HasLoneSurrogate(location) THEN Throw("URIError")
    ELSE IF resp.search.kind = "error"
    THEN Return(Failure("Failed to get popular places from Wikipedia."))
    ELSE IF "search" \notin DOMAIN resp.search.data.query
            \/ Len(resp.search.data.query.search) = 0
    THEN Return(Failure("No popular places found at the destination."))
    ELSE LET searchResults == resp.search.data.query.search
             n == Min(Len(searchResults), TopResults)
         IN  IF \E i \in 1..n :
                    \/ HasLoneSurrogate(searchResults[i].title)
                    \/ resp.summaries[i].kind = "error"
             THEN Return(Failure("Failed to get popular places from Wikipedia."))
             ELSE Return([success |-> TRUE,
                          places |-> [i \in 1..n |-> PopularPlace(resp.summaries[i])]])

\* resp.search, resp.content and resp.info answer the three requests.
getHistoricalInfo(location, resp) ==
    IF HasLoneSurrogate(location) \/ resp.search.kind = "error"
    THEN Return(Failure("Failed to fetch historical information."))
    ELSE IF Len(resp.search.data.query.search) = 0
            \/ resp.search.data.query.search[1].pageid = 0
    THEN Return(Failure("No historical information found."))
    ELSE IF resp.content.kind = "error" \/ resp.info.kind = "error"
    THEN Return(Failure("Failed to fetch historical information."))
    ELSE LET pageId == resp.search.data.query.search[1].pageid
         IN  Return([success |-> TRUE,
                     history |-> [summary |-> resp.content.data.query.pages[pageId].extract,
                                  source |-> resp.info.data.query.pages[pageId].fullurl]])

\* hotel.rating || 'N/A': an absent rating and the number 0 are falsy.
HotelRating(hotel) ==
    IF "rating" \notin DOMAIN hotel \/ hotel.rating = S("0")
    THEN S("N/A") ELSE hotel.rating

\* hotel.categories[0]?.name || 'Hotel' (hotel.categories is present)
HotelCategory(hotel) ==
    IF Len(hotel.categories) = 0 \/ hotel.categories[1].name = << >>
    THEN S("Hotel") ELSE hotel.categories[1].name

\* Reading hotel.location.formatted_address or hotel.categories[0] of an
\* entry without that property is a TypeError.
HotelEntryThrows(hotel) ==
    "location" \notin DOMAIN hotel \/ "categories" \notin DOMAIN hotel

Hotel(hotel) ==
    [name |-> hotel.name,
     rating |-> HotelRating(hotel),
     address |-> hotel.location.formatted_address,
     category |-> HotelCategory(hotel),
     link |-> S("https://foursquare.com/v/") \o hotel.fsq_id]

\* Mutant: a transport error is not caught.
getHotelRecommendations_NoCatch(coordinates, resp) ==
    IF resp.kind = "error" THEN Throw("AxiosError")
    ELSE IF "results" \notin DOMAIN resp.data
            \/ \E i \in 1..Len(resp.data.results) : HotelEntryThrows(resp.data.results[i])
    THEN Return(Failure("Failed to fetch hotel recommendations."))
    ELSE Return([success |-> TRUE,
                 hotels |-> [i \in 1..Len(resp.data.results) |-> Hotel(resp.data.results[i])]])

getHotelRecommendations(coordinates, resp) ==
    IF resp.kind = "error"
       \/ "results" \notin DOMAIN resp.data
       \/ \E i \in 1..Len(resp.data.results) : HotelEntryThrows(resp.data.results[i])
    THEN Return(Failure("Failed to fetch hotel recommendations."))
    ELSE Return([success |-> TRUE,
                 hotels |-> [i \in 1..Len(resp.data.results) |-> Hotel(resp.data.results[i])]])


\* --------------------------------------------------------------- aggregator
Providers == <<"route", "popularPlaces", "historicalInfo", "hotels">>

Pending == [pending |-> TRUE]

VARIABLES
    variant,            \* "parallel" (part_000) or "sequential" (route.js)
    origin, destination, travelMode,   \* the tool call's arguments
    geoResp, routeResp, placesResp, histResp, hotelResp,  \* what the providers answer
    pc,                 \* where the tool call is
    originCoords, destinationCoords,   \* how each getCoordinates call ended
    settled,            \* how each of the four provider calls ended
    events,             \* <<"start" | "end", call>> in the order they happen
    result,             \* how getRouteAndDetails ended
    reply,              \* what get_route.execute returns
    messages, inputValue, loading,     \* the chat page's state
    httpRequest, httpResponse,         \* its exchange with /api/chat
    modelCalls,         \* the message lists handed to streamText
    submits             \* submissions made so far

toolVars == <<variant, origin, destination, travelMode, geoResp, routeResp,
              placesResp, histResp, hotelResp, pc, originCoords,
              destinationCoords, settled, events, result, reply>>

chatVars == <<messages, inputValue, loading, httpRequest, httpResponse,
              modelCalls, submits>>

vars == <<toolVars, chatVars>>

Started(call) == \E i \in 1..Len(events) : events[i] = <<"start", call>>
Ended(call) == \E i \in 1..Len(events) : events[i] = <<"end", call>>

\* The provider calls in the order they completed.
CompletionOrder(ev) ==
    LET ends == SelectSeq(ev, LAMBDA e : e[1] = "end" /\ e[2] \in {Providers[i] : i \in 1..Len(Providers)})
    IN  [i \in 1..Len(ends) |-> ends[i][2]]

\* What a provider call yields given the provider's answer.
ProviderCall(p) ==
    CASE p = "route" ->
            getRouteDetails(originCoords.value, destinationCoords.value, travelMode, routeResp)
      [] p = "popularPlaces" -> getPopularPlaces(destination, placesResp)
      [] p = "historicalInfo" -> getHistoricalInfo(destination, histResp)
      [] p = "hotels" -> getHotelRecommendations(destinationCoords.value, hotelResp)

Num(n) == S(ToString(n))

MapboxUrl(o, d, mode) ==
    S("https://www.mapbox.com/directions/?start=") \o Num(o.lon) \o S(",") \o Num(o.lat)
        \o S("&end=") \o Num(d.lon) \o S(",") \o Num(d.lat) \o S("&profile=") \o S(mode)

GoogleMapsUrl(o, d, mode) ==
    S("https://www.google.com/maps/dir/?api=1&origin=") \o Num(o.lat) \o S(",") \o Num(o.lon)
        \o S("&destination=") \o Num(d.lat) \o S(",") \o Num(d.lon)
        \o S("&travelmode=") \o S(mode)

CoordsFailure == Failure("Failed to get coordinates for origin or destination.")

\* Mutant: placesAlongRoute is taken from the popular places.
TravelPlan_PlacesSwapped(o, d, mode, routeResult, popularPlaces, historicalInfo, hotels) ==
    [success |-> TRUE,
     duration |-> routeResult.duration,
     distance |-> routeResult.distance,
     directions |-> routeResult.directions,
     placesAlongRoute |-> IF popularPlaces.success THEN popularPlaces.places ELSE << >>,
     popularPlaces |-> IF popularPlaces.success THEN popularPlaces.places ELSE << >>,
     historicalInfo |-> IF historicalInfo.success THEN historicalInfo.history ELSE NULL,
     hotels |-> IF hotels.success THEN hotels.hotels ELSE << >>,
     mapboxUrl |-> MapboxUrl(o, d, mode),
     googleMapsUrl |-> GoogleMapsUrl(o, d, mode)]

\* The plan object of the parallel variant, from the four awaited values.
TravelPlan(o, d, mode, routeResult, popularPlaces, historicalInfo, hotels) ==
    [success |-> TRUE,
     duration |-> routeResult.duration,
     distance |-> routeResult.distance,
     directions |-> routeResult.directions,
     placesAlongRoute |-> routeResult.places,
     popularPlaces |-> IF popularPlaces.success THEN popularPlaces.places ELSE << >>,
     historicalInfo |-> IF historicalInfo.success THEN historicalInfo.history ELSE NULL,
     hotels |-> IF hotels.success THEN hotels.hotels ELSE << >>,
     mapboxUrl |-> MapboxUrl(o, d, mode),
     googleMapsUrl |-> GoogleMapsUrl(o, d, mode)]

\* The plan object of the sequential variant.
RoutePlan(o, d, mode, routeResult, popularPlaces) ==
    [success |-> TRUE,
     duration |-> routeResult.duration,
     distance |-> routeResult.distance,
     directions |-> routeResult.directions,
     placesAlongRoute |-> routeResult.places,
     popularPlaces |-> IF popularPlaces.success THEN popularPlaces.places ELSE << >>,
     mapboxUrl |-> MapboxUrl(o, d, mode),
     googleMapsUrl |-> GoogleMapsUrl(o, d, mode)]

\* Mutant: the join also ends as soon as the route call has failed, without
\* waiting for the other three.
PromiseAllSettled_RouteFailsFast(s) ==
    \/ \A i \in 1..Len(Providers) : s[Providers[i]] # Pending
    \/ \E i \in 1..Len(Providers) : s[Providers[i]] # Pending /\ s[Providers[i]].threw
    \/ s["route"] # Pending /\ ~s["route"].value.success

\* Promise.all settles once every call has fulfilled, or as soon as one has
\* rejected.
PromiseAllSettled(s) ==
    \/ \A i \in 1..Len(Providers) : s[Providers[i]] # Pending
    \/ \E i \in 1..Len(Providers) : s[Providers[i]] # Pending /\ s[Providers[i]].threw

\* The places of a successful route or popular-places call, none otherwise.
PlacesPushedBy(s, p) ==
    IF p \in {"route", "popularPlaces"} /\ s[p].value.success
    THEN s[p].value.places ELSE << >>

RECURSIVE PushedInOrder(_, _)
PushedInOrder(s, order) ==
    IF Len(order) = 0 THEN << >>
    ELSE PlacesPushedBy(s, order[1]) \o PushedInOrder(s, Tail(order))

\* Mutant: the route call and the popular-places call push their places
\* onto one shared array as they complete.
JoinResult_SharedPlaces(o, d, mode, s, order) ==
    IF \E i \in 1..Len(order) : s[order[i]].threw
    THEN s[order[1]]
    ELSE IF ~s["route"].value.success
    THEN Return([success |-> FALSE, message |-> s["route"].value.message])
    ELSE Return([TravelPlan(o, d, mode, s["route"].value, s["popularPlaces"].value,
                            s["historicalInfo"].value, s["hotels"].value)
                 EXCEPT !.placesAlongRoute = PushedInOrder(s, order)])

\* The rest of the parallel getRouteAndDetails once Promise.all has settled:
\* the awaited array is destructured by position, whatever the completion
\* order; a rejection is that of the call that rejected first.
JoinResult(o, d, mode, s, order) ==
    IF \E i \in 1..Len(order) : s[order[i]].threw
    THEN LET first == CHOOSE i \in 1..Len(order) :
                          /\ s[order[i]].threw
                          /\ \A j \in 1..(i - 1) : ~s[order[j]].threw
         IN  s[order[first]]
    ELSE LET routeResult == s[Providers[1]].value
             popularPlaces == s[Providers[2]].value
             historicalInfo == s[Providers[3]].value
             hotels == s[Providers[4]].value
         IN  IF ~routeResult.success
             THEN Return([success |-> FALSE, message |-> routeResult.message])
             ELSE Return(TravelPlan(o, d, mode, routeResult, popularPlaces,
                                    historicalInfo, hotels))


\* ---------------------------------------------------------- get_route.execute
NL == S("\n")

\* Number.prototype.toFixed(2) of a whole number
ToFixed2(n) == <<ToString(n), ".00">>

PlaceAlongRouteLine(p, index) ==
    Num(index) \o S(". ") \o p.name \o S(": ") \o p.instruction \o S(" (")
        \o ToFixed2(p.distance) \o S(" m, ")
        \o Num(p.duration \div SecondsPerMinute) \o S(" min)")

\* Mutant: the list is rendered without slice(0, 5).
placesAlongRouteDescription_NoSlice(placesAlongRoute) ==
    Join([i \in 1..Len(placesAlongRoute) |-> PlaceAlongRouteLine(placesAlongRoute[i], i)], NL)

placesAlongRouteDescription(placesAlongRoute) ==
    LET shown == Slice0(placesAlongRoute, DisplayCap)
    IN  Join([i \in 1..Len(shown) |-> PlaceAlongRouteLine(shown[i], i)], NL)

popularPlacesDescription(popularPlaces) ==
    Join([i \in 1..Len(popularPlaces) |->
              Num(i) \o S(". [") \o popularPlaces[i].title \o S("](")
                  \o popularPlaces[i].url \o S("): ") \o popularPlaces[i].description],
         NL)

hotelRecommendations(hotels) ==
    Join([i \in 1..Len(hotels) |->
              Num(i) \o S(". [") \o hotels[i].name \o S("](") \o hotels[i].link
                  \o S(") - ") \o hotels[i].category \o S(" (Rating: ")
                  \o hotels[i].rating \o S(")") \o NL \o S("   Address: ")
                  \o hotels[i].address],
         NL)

\* Mutant: the summary is interpolated without the null check's placeholder.
HistoricalSummary_NoPlaceholder(historicalInfo) ==
    IF historicalInfo # NULL THEN historicalInfo.summary ELSE S("undefined")

HistoricalSummary(historicalInfo) ==
    IF historicalInfo # NULL THEN historicalInfo.summary
    ELSE S("No historical information available.")

HistoricalSource(historicalInfo) ==
    IF historicalInfo # NULL THEN NL \o S("Read more: ") \o historicalInfo.source
    ELSE << >>

NoteLine == S("Note: Click the links to view interactive maps and more details about places and hotels.")

\* The template literal of the parallel variant, line by line.
TravelPlanText(o, d, plan) ==
    Join(<<S("Travel Plan: ") \o o \o S(" to ") \o d,
           << >>,
           S("Route Information:"),
           S("- Duration: ") \o plan.duration,
           S("- Distance: ") \o plan.distance,
           << >>,
           S("Detailed directions: ") \o plan.directions,
           << >>,
           S("Historical Information about ") \o d \o S(":"),
           HistoricalSummary(plan.historicalInfo),
           HistoricalSource(plan.historicalInfo),
           << >>,
           S("Notable places along the route:"),
           placesAlongRouteDescription(plan.placesAlongRoute),
           << >>,
           S("Popular places to visit at ") \o d \o S(":"),
           popularPlacesDescription(plan.popularPlaces),
           << >>,
           S("Recommended Hotels:"),
           hotelRecommendations(plan.hotels),
           << >>,
           S("Interactive Maps:"),
           S("- [Google Maps Directions](") \o plan.googleMapsUrl \o S(")"),
           << >>,
           NoteLine>>, NL)

\* The template literal of the sequential variant.
RoutePlanText(o, d, plan) ==
    Join(<<S("The best route from ") \o o \o S(" to ") \o d
               \o S(" will take approximately ") \o plan.duration
               \o S(", covering a distance of ") \o plan.distance \o S("."),
           << >>,
           S("Detailed directions: ") \o plan.directions,
           << >>,
           S("Notable places along the route:"),
           placesAlongRouteDescription(plan.placesAlongRoute),
           << >>,
           S("Popular places to visit at ") \o d \o S(":"),
           popularPlacesDescription(plan.popularPlaces),
           << >>,
           S("You can view the interactive route maps here:"),
           << >>,
           S("- [Google Maps Directions](") \o plan.googleMapsUrl \o S(")"),
           << >>,
           S("Note: These links will open the respective directions interface, allowing you to view the route and directions interactively.")>>,
         NL)

ErrorText(v) ==
    IF v = "parallel" THEN S("There was an error retrieving travel information.")
    ELSE S("There was an error retrieving route and place information.")

\* What execute returns once getRouteAndDetails has ended as res.
ExecuteReply(v, o, d, res) ==
    IF res.threw THEN [text |-> ErrorText(v)]
    ELSE IF res.value.success
    THEN [text |-> IF v = "parallel" THEN TravelPlanText(o, d, res.value)
                   ELSE RoutePlanText(o, d, res.value)]
    ELSE [text |-> res.value.message]


\* ------------------------------------------------- the tool call, step by step
Append2(ev, a, b) == Append(Append(ev, a), b)

\* execute calls getRouteAndDetails, which calls getCoordinates(origin).
Execute ==
    /\ pc = "idle"
    /\ pc' = "awaitOrigin"
    /\ events' = Append(events, <<"start", "origin">>)
    /\ UNCHANGED <<variant, origin, destination, travelMode, geoResp, routeResp,
                   placesResp, histResp, hotelResp, originCoords,
                   destinationCoords, settled, result, reply, chatVars>>

\* getCoordinates(origin) ends; unless it threw, getCoordinates(destination)
\* is called.
OriginSettles ==
    /\ pc = "awaitOrigin"
    /\ LET c == getCoordinates(origin, geoResp.origin)
       IN  /\ originCoords' = c
           /\ IF c.threw
              THEN /\ result' = c
                   /\ pc' = "returned"
                   /\ events' = Append(events, <<"end", "origin">>)
              ELSE /\ result' = result
                   /\ pc' = "awaitDestination"
                   /\ events' = Append2(events, <<"end", "origin">>,
                                        <<"start", "destination">>)
    /\ UNCHANGED <<variant, origin, destination, travelMode, geoResp, routeResp,
                   placesResp, histResp, hotelResp, destinationCoords, settled,
                   reply, chatVars>>

\* The calls getRouteAndDetails makes once both lookups gave coordinates.
Launch(v) ==
    IF v = "parallel"
    THEN [i \in 1..Len(Providers) |-> <<"start", Providers[i]>>]
    ELSE << <<"start", "route">> >>

\* getCoordinates(destination) ends; getRouteAndDetails checks both results
\* and either returns the failure or makes its provider calls.
DestinationSettles ==
    /\ pc = "awaitDestination"
    /\ LET c == getCoordinates(destination, geoResp.destination)
       IN  /\ destinationCoords' = c
           /\ IF c.threw
              THEN /\ result' = c
                   /\ pc' = "returned"
                   /\ events' = Append(events, <<"end", "destination">>)
              ELSE IF originCoords.value = NULL \/ c.value = NULL
              THEN /\ result' = Return(CoordsFailure)
                   /\ pc' = "returned"
                   /\ events' = Append(events, <<"end", "destination">>)
              ELSE /\ result' = result
                   /\ pc' = IF variant = "parallel" THEN "fanout" ELSE "awaitRoute"
                   /\ events' = Append(events, <<"end", "destination">>) \o Launch(variant)
    /\ UNCHANGED <<variant, origin, destination, travelMode, geoResp, routeResp,
                   placesResp, histResp, hotelResp, originCoords, settled,
                   reply, chatVars>>

\* Parallel variant: one of the four launched calls ends.
Complete(p) ==
    /\ pc = "fanout"
    /\ settled[p] = Pending
    /\ ~PromiseAllSettled(settled)
    /\ settled' = [settled EXCEPT ![p] = ProviderCall(p)]
    /\ events' = Append(events, <<"end", p>>)
    /\ UNCHANGED <<variant, origin, destination, travelMode, geoResp, routeResp,
                   placesResp, histResp, hotelResp, pc, originCoords,
                   destinationCoords, result, reply, chatVars>>

\* Parallel variant: Promise.all has settled and getRouteAndDetails ends.
JoinAll ==
    /\ pc = "fanout"
    /\ PromiseAllSettled(settled)
    /\ result' = JoinResult(originCoords.value, destinationCoords.value, travelMode,
                            settled, CompletionOrder(events))
    /\ pc' = "returned"
    /\ UNCHANGED <<variant, origin, destination, travelMode, geoResp, routeResp,
                   placesResp, histResp, hotelResp, originCoords,
                   destinationCoords, settled, events, reply, chatVars>>

\* Sequential variant: getRouteDetails ends; on failure getRouteAndDetails
\* returns it, otherwise getPopularPlaces is called.
RouteSettles ==
    /\ pc = "awaitRoute"
    /\ LET r == ProviderCall("route")
       IN  /\ settled' = [settled EXCEPT !["route"] = r]
           /\ IF ~r.value.success
              THEN /\ result' = Return([success |-> FALSE, message |-> r.value.message])
                   /\ pc' = "returned"
                   /\ events' = Append(events, <<"end", "route">>)
              ELSE /\ result' = result
                   /\ pc' = "awaitPlaces"
                   /\ events' = Append2(events, <<"end", "route">>,
                                        <<"start", "popularPlaces">>)
    /\ UNCHANGED <<variant, origin, destination, travelMode, geoResp, routeResp,
                   placesResp, histResp, hotelResp, originCoords,
                   destinationCoords, reply, chatVars>>

\* Sequential variant: getPopularPlaces ends and getRouteAndDetails returns.
PlacesSettle ==
    /\ pc = "awaitPlaces"
    /\ LET r == ProviderCall("popularPlaces")
       IN  /\ settled' = [settled EXCEPT !["popularPlaces"] = r]
           /\ result' = IF r.threw THEN r
                        ELSE Return(RoutePlan(originCoords.value, destinationCoords.value,
                                              travelMode, settled["route"].value, r.value))
    /\ pc' = "returned"
    /\ events' = Append(events, <<"end", "popularPlaces">>)
    /\ UNCHANGED <<variant, origin, destination, travelMode, geoResp, routeResp,
                   placesResp, histResp, hotelResp, originCoords,
                   destinationCoords, reply, chatVars>>

\* execute resumes with the result (or the exception) and returns its text.
Reply ==
    /\ pc = "returned"
    /\ reply' = ExecuteReply(variant, origin, destination, result)
    /\ pc' = "done"
    /\ UNCHANGED <<variant, origin, destination, travelMode, geoResp, routeResp,
                   placesResp, histResp, hotelResp, originCoords,
                   destinationCoords, settled, events, result, chatVars>>

Next ==
    \/ Execute
    \/ OriginSettles
    \/ DestinationSettles
    \/ \E i \in 1..Len(Providers) : Complete(Providers[i])
    \/ JoinAll
    \/ RouteSettles
    \/ PlacesSettle
    \/ Reply


\* ------------------------------------------------------- provider responses
Err == [kind |-> "error"]
Ok(data) == [kind |-> "ok", data |-> data]

\* Tool arguments: ordinary names, a name with a surrogate pair, and names
\* with a lone surrogate.
Origins == {S("Paris"), <<"HI">>}
Destinations == {S("Rome"), <<"Rome", "HI", "LO">>, <<"Rome", "LO">>}

GeoFound(lon, lat) ==
    Ok([features |-> << [geometry |-> [coordinates |-> <<lon, lat>>]] >>])

GeoResponses(lon, lat) == {Err, Ok([features |-> << >>]), GeoFound(lon, lat)}

StepNames == {<< >>, S("Main St")}

Step(i, name) ==
    [name |-> name,
     maneuver |-> [instruction |-> S("turn " \o ToString(i))],
     distance |-> 100 * i + 20,
     duration |-> 45 * i]

\* Every list of n steps with names drawn from StepNames.
StepLists(n) == {[i \in 1..n |-> Step(i, f[i])] : f \in [1..n -> StepNames]}

RouteOf(steps) ==
    Ok([routes |-> << [distance |-> 1500, duration |-> 125,
                       legs |-> << [steps |-> steps] >>] >>])

\* A transport error, no routes (empty or absent list), a route without
\* legs, a step without a maneuver or without a name, and ordinary routes.
RouteFailures ==
    {Err,
     Ok([routes |-> << >>]),
     Ok([code |-> "NoRoute"]),
     Ok([routes |-> << [distance |-> 0, duration |-> 0, legs |-> << >>] >>]),
     RouteOf(<< [name |-> S("Main St"), distance |-> 10, duration |-> 5] >>)}

RouteResponses ==
    RouteFailures
    \cup {RouteOf(<< [maneuver |-> [instruction |-> S("depart")],
                     distance |-> 10, duration |-> 5],
                    Step(2, S("Main St")) >>)}
    \cup {RouteOf(steps) : steps \in StepLists(1)}

Summary(i) ==
    Ok([title |-> S("Sight " \o ToString(i)),
        extract |-> S("About sight " \o ToString(i)),
        content_urls |-> [desktop |-> [page |-> S("https://en.wikipedia.org/wiki/Sight_" \o ToString(i))]]])

SearchOf(n) == Ok([query |-> [search |-> [i \in 1..n |-> [title |-> S("Sight " \o ToString(i)), pageid |-> i]]]])

PlacesResponses ==
    {[search |-> Err, summaries |-> << >>],
     [search |-> SearchOf(0), summaries |-> << >>],
     [search |-> SearchOf(2), summaries |-> <<Summary(1), Err>>],
     [search |-> SearchOf(2), summaries |-> <<Summary(1), Summary(2)>>]}

HistContent == Ok([query |-> [pages |-> [p \in {7} |-> [extract |-> S("Founded long ago.")]]]])
HistInfo == Ok([query |-> [pages |-> [p \in {7} |-> [fullurl |-> S("https://en.wikipedia.org/wiki/Rome")]]]])
HistSearch(ids) == Ok([query |-> [search |-> [i \in 1..Len(ids) |-> [pageid |-> ids[i]]]]])

HistResponses ==
    {[search |-> Err, content |-> HistContent, info |-> HistInfo],
     [search |-> HistSearch(<< >>), content |-> HistContent, info |-> HistInfo],
     [search |-> HistSearch(<<7>>), content |-> Err, info |-> HistInfo],
     [search |-> HistSearch(<<7>>), content |-> HistContent, info |-> Err],
     [search |-> HistSearch(<<7>>), content |-> HistContent, info |-> HistInfo]}

FullEntry(i) ==
    [name |-> S("Hotel " \o ToString(i)), rating |-> S("8.5"),
     location |-> [formatted_address |-> S(ToString(i) \o " Via Roma")],
     categories |-> << [name |-> S("Resort")] >>,
     fsq_id |-> S("fsq" \o ToString(i))]

HotelFailures == {Err, Ok([message |-> S("quota")])}

HotelResponses ==
    HotelFailures \cup {Ok([results |-> << >>]), Ok([results |-> <<FullEntry(1)>>])}

\* ------------------------------------------------------- chat page and POST
\* String.prototype.trim, with " " the only whitespace piece
RECURSIVE Trim(_)
Trim(s) ==
    IF Len(s) = 0 THEN s
    ELSE IF s[1] = " " THEN Trim(Tail(s))
    ELSE IF s[Len(s)] = " " THEN Trim(SubSeq(s, 1, Len(s) - 1))
    ELSE s

InputTexts == {<< >>, S(" "), S("Plan a trip"), <<" ", "Hi">>}

ModelAnswers == {S("Here is your plan."), S("Where do you start?")}

ConnectError == S("Error: Could not connect to server.")
ResponseError == S("Error: Failed to get AI response.")

\* onInputChange; the input is disabled while loading.
onInputChange(v) ==
    /\ ~loading
    /\ inputValue # v
    /\ inputValue' = v
    /\ UNCHANGED <<toolVars, messages, loading, httpRequest, httpResponse,
                   modelCalls, submits>>

\* handleSubmit up to its fetch: unless the input trims to nothing (then it
\* returns at once), the user's message is shown and {message: content} is
\* posted to /api/chat.  The messages' ids (Date.now()) are left out.
handleSubmit ==
    /\ ~loading
    /\ submits < MaxSubmits
    /\ httpRequest = NULL /\ httpResponse = NULL
    /\ Trim(inputValue) # << >>
    /\ messages' = Append(messages, [content |-> inputValue, role |-> "user"])
    /\ inputValue' = << >>
    /\ loading' = TRUE
    /\ httpRequest' = [from |-> "ui", body |-> [message |-> inputValue]]
    /\ submits' = submits + 1
    /\ UNCHANGED <<toolVars, httpResponse, modelCalls>>

\* Another client of the endpoint posts {messages: [...]}.
ApiClientPost(text) ==
    /\ submits < MaxSubmits
    /\ httpRequest = NULL /\ httpResponse = NULL /\ ~loading
    /\ httpRequest' = [from |-> "api",
                       body |-> [messages |-> << [role |-> "user", content |-> text] >>]]
    /\ submits' = submits + 1
    /\ UNCHANGED <<toolVars, messages, inputValue, loading, httpResponse, modelCalls>>

\* What POST answers: without a messages property convertToCoreMessages
\* throws and the catch block answers 500 with {error}; otherwise the
\* messages go to streamText and the answer is a data stream, not JSON.
PostResponse(body, answer) ==
    IF "messages" \notin DOMAIN body
    THEN [ok |-> FALSE, status |-> 500, json |-> [error |-> S("messages is not iterable")]]
    ELSE [ok |-> TRUE, status |-> 200, stream |-> answer]

POST(answer) ==
    /\ httpRequest # NULL
    /\ httpResponse' = [to |-> httpRequest.from] @@ PostResponse(httpRequest.body, answer)
    /\ modelCalls' = IF "messages" \in DOMAIN httpRequest.body
                     THEN Append(modelCalls, httpRequest.body.messages)
                     ELSE modelCalls
    /\ httpRequest' = NULL
    /\ UNCHANGED <<toolVars, messages, inputValue, loading, submits>>

\* The message handleSubmit appends for a response: response.json() throws
\* on a body that is not JSON; a reply is shown only if response.ok and
\* data.reply is set.
AiMessage(response) ==
    IF "json" \notin DOMAIN response THEN [content |-> ConnectError, role |-> "ai"]
    ELSE IF response.ok /\ "reply" \in DOMAIN response.json /\ response.json.reply # << >>
    THEN [content |-> response.json.reply, role |-> "ai"]
    ELSE [content |-> ResponseError, role |-> "ai"]

\* handleSubmit after its fetch resolved.
handleResponse ==
    /\ httpResponse # NULL /\ httpResponse.to = "ui"
    /\ messages' = Append(messages, AiMessage(httpResponse))
    /\ loading' = FALSE
    /\ httpResponse' = NULL
    /\ UNCHANGED <<toolVars, inputValue, httpRequest, modelCalls, submits>>

\* handleSubmit after its fetch rejected (the server cannot be reached).
handleFetchError ==
    /\ httpRequest # NULL /\ httpRequest.from = "ui"
    /\ messages' = Append(messages, [content |-> ConnectError, role |-> "ai"])
    /\ loading' = FALSE
    /\ httpRequest' = NULL
    /\ UNCHANGED <<toolVars, inputValue, httpResponse, modelCalls, submits>>

\* The other client takes its response.
ApiClientReceive ==
    /\ httpResponse # NULL /\ httpResponse.to = "api"
    /\ httpResponse' = NULL
    /\ UNCHANGED <<toolVars, messages, inputValue, loading, httpRequest,
                   modelCalls, submits>>

NextChat ==
    \/ \E v \in InputTexts : onInputChange(v)
    \/ handleSubmit
    \/ \E text \in InputTexts \ {<< >>} : ApiClientPost(text)
    \/ \E answer \in ModelAnswers : POST(answer)
    \/ handleResponse
    \/ handleFetchError
    \/ ApiClientReceive

\* ------------------------------------------------------------ specifications
ChatIdle ==
    /\ messages = << >>
    /\ inputValue = << >>
    /\ loading = FALSE
    /\ httpRequest = NULL
    /\ httpResponse = NULL
    /\ modelCalls = << >>
    /\ submits = 0

ToolIdle ==
    /\ pc = "idle"
    /\ originCoords = Pending
    /\ destinationCoords = Pending
    /\ settled = [p \in {Providers[i] : i \in 1..Len(Providers)} |-> Pending]
    /\ events = << >>
    /\ result = Pending
    /\ reply = Pending

\* z.enum of the tool's travelMode parameter
TravelModes(v) == IF v = "parallel" THEN {"driving"} ELSE {"driving", "walking", "cycling"}

AllGeo == [origin : GeoResponses(2, 48), destination : GeoResponses(12, 41)]
GeoBothFound == [origin |-> GeoFound(2, 48), destination |-> GeoFound(12, 41)]

\* One tool call with arguments and provider answers drawn from the given sets.
InitWith(variants, origins, destinations, geos, routes, places, hists, hotelSets) ==
    /\ variant \in variants
    /\ origin \in origins
    /\ destination \in destinations
    /\ travelMode \in TravelModes(variant)
    /\ geoResp \in geos
    /\ routeResp \in routes
    /\ placesResp \in places
    /\ histResp \in hists
    /\ hotelResp \in hotelSets
    /\ ToolIdle
    /\ ChatIdle

\* Every combination of arguments and provider outcomes.
Init ==
    InitWith({"parallel", "sequential"}, Origins, Destinations, AllGeo,
             RouteResponses, PlacesResponses, HistResponses, HotelResponses)

Spec == Init /\ [][Next]_vars


\* Routes of every length up to MaxSteps, each step named or not; both
\* lookups give coordinates.
RoutesOfAllLengths == {RouteOf(steps) : steps \in UNION {StepLists(n) : n \in 0..MaxSteps}}

InitRoutes ==
    InitWith({"parallel", "sequential"}, {S("Paris")}, {S("Rome")}, {GeoBothFound},
             RoutesOfAllLengths,
             {[search |-> SearchOf(1), summaries |-> <<Summary(1)>>]},
             {[search |-> Err, content |-> HistContent, info |-> HistInfo],
              [search |-> HistSearch(<<7>>), content |-> HistContent, info |-> HistInfo]},
             {Ok([results |-> <<FullEntry(1)>>])})

SpecRoutes == InitRoutes /\ [][Next]_vars

\* Hotel lists of every length up to MaxHotels, each entry with or without
\* a rating and with an absent, empty or one-element categories list.
HotelEntries(i) ==
    {r @@ c @@ [name |-> S("Hotel " \o ToString(i)),
                location |-> [formatted_address |-> S(ToString(i) \o " Via Roma")],
                fsq_id |-> S("fsq" \o ToString(i))] :
        r \in {<< >>, [rating |-> S("8.5")]},
        c \in {<< >>, [categories |-> << >>],
               [categories |-> << [name |-> S("Resort")] >>]}}

HotelLists(n) ==
    {h \in [1..n -> UNION {HotelEntries(i) : i \in 1..n}] :
        \A i \in 1..n : h[i] \in HotelEntries(i)}

HotelsOfAllLengths ==
    {Ok([results |-> h]) : h \in UNION {HotelLists(n) : n \in 0..MaxHotels}}

InitHotels ==
    InitWith({"parallel", "sequential"}, {S("Paris")}, {S("Rome")}, {GeoBothFound},
             {RouteOf(<<Step(1, S("Main St"))>>)},
             {[search |-> SearchOf(1), summaries |-> <<Summary(1)>>]},
             {[search |-> HistSearch(<<7>>), content |-> HistContent, info |-> HistInfo]},
             HotelFailures \cup HotelsOfAllLengths)

SpecHotels == InitHotels /\ [][Next]_vars

\* A chat session; the tool is idle.
InitChat ==
    InitWith({"parallel"}, {S("Paris")}, {S("Rome")}, {GeoBothFound}, {Err},
             {[search |-> Err, summaries |-> << >>]},
             {[search |-> Err, content |-> Err, info |-> Err]}, {Err})

SpecChat == InitChat /\ [][NextChat]_vars

\* ------------------------------------------------------------------- claims
Finished == pc \in {"returned", "done"}

\* A lookup that ended with coordinates.
GotCoords(c) == c # Pending /\ ~c.threw /\ c.value # NULL

\* A lookup that ended by returning null.
GotNull(c) == c # Pending /\ ~c.threw /\ c.value = NULL

RouteSucceeded ==
    settled["route"] # Pending /\ ~settled["route"].threw /\ settled["route"].value.success

IsPlan == Finished /\ ~result.threw /\ result.value.success

\* An auxiliary call that ended in failure.
AuxFailed(p) == settled[p] # Pending /\ (settled[p].threw \/ ~settled[p].value.success)

AuxSucceeded(p) == settled[p] # Pending /\ ~settled[p].threw /\ settled[p].value.success

\* C1: getRouteAndDetails returns a success plan exactly when the origin
\* lookup, the destination lookup and the routing call all succeeded; once
\* both lookups gave coordinates the call never throws, whatever the
\* auxiliary calls did; and in a plan each failed auxiliary call's field has
\* its default ([] / null / []) while each successful one's field has its data.
C1_PlanIffCoreSucceeded ==
    Finished =>
        /\ IsPlan <=> (GotCoords(originCoords) /\ GotCoords(destinationCoords)
                       /\ RouteSucceeded)
        /\ (GotCoords(originCoords) /\ GotCoords(destinationCoords)) => ~result.threw
        /\ IsPlan =>
              /\ AuxFailed("popularPlaces") => result.value.popularPlaces = << >>
              /\ AuxSucceeded("popularPlaces") =>
                     result.value.popularPlaces = settled["popularPlaces"].value.places
              /\ variant = "parallel" =>
                    /\ AuxFailed("historicalInfo") => result.value.historicalInfo = NULL
                    /\ AuxSucceeded("historicalInfo") =>
                           result.value.historicalInfo = settled["historicalInfo"].value.history
                    /\ AuxFailed("hotels") => result.value.hotels = << >>
                    /\ AuxSucceeded("hotels") =>
                           result.value.hotels = settled["hotels"].value.hotels

\* A plan although popular places and hotels failed and history succeeded.
C1_Witness ==
    /\ pc = "done" /\ variant = "parallel" /\ IsPlan
    /\ AuxFailed("popularPlaces") /\ AuxFailed("hotels") /\ AuxSucceeded("historicalInfo")

\* C2: when a coordinate lookup returns no coordinates, getRouteAndDetails
\* returns the coordinates failure and getRouteDetails is never called, in
\* both variants.
C2_NoCoordsFailsWithoutRouting ==
    (Finished /\ (GotNull(originCoords) \/ GotNull(destinationCoords))) =>
        /\ result = Return(CoordsFailure)
        /\ ~Started("route")

ZeroRoutes(resp) ==
    resp.kind = "ok" /\ "routes" \in DOMAIN resp.data /\ Len(resp.data.routes) = 0

NoRoutesText == S("No routes found. Please check the origin and destination.")

\* C3: when both lookups give coordinates and the directions provider
\* returns zero routes, getRouteAndDetails returns the failure with exactly
\* the "No routes found..." message, whatever the auxiliary calls did, and
\* the tool's reply text is that message.
C3_ZeroRoutesMessage ==
    (GotCoords(originCoords) /\ GotCoords(destinationCoords) /\ ZeroRoutes(routeResp)) =>
        /\ Finished => result = Return([success |-> FALSE, message |-> NoRoutesText])
        /\ pc = "done" => reply = [text |-> NoRoutesText]

\* Zero routes in the parallel variant, with one auxiliary call failed and
\* another successful.
C3_Witness ==
    /\ pc = "done" /\ variant = "parallel" /\ ZeroRoutes(routeResp)
    /\ GotCoords(originCoords) /\ GotCoords(destinationCoords)
    /\ AuxFailed("hotels") /\ AuxSucceeded("popularPlaces")
    /\ reply = [text |-> NoRoutesText]

\* The routing result as the routing response alone determines it.
RouteOutcome ==
    getRouteDetails(originCoords.value, destinationCoords.value, travelMode, routeResp).value

\* C4: in a plan, duration, distance, directions and placesAlongRoute are
\* those of the routing result, which the routing response alone determines,
\* and each auxiliary field is determined by its own provider's answer alone.
C4_RouteFieldsFramed ==
    IsPlan =>
        /\ result.value.duration = RouteOutcome.duration
        /\ result.value.distance = RouteOutcome.distance
        /\ result.value.directions = RouteOutcome.directions
        /\ result.value.placesAlongRoute = RouteOutcome.places
        /\ LET pp == getPopularPlaces(destination, placesResp).value
           IN  result.value.popularPlaces = IF pp.success THEN pp.places ELSE << >>
        /\ variant = "parallel" =>
              /\ LET h == getHistoricalInfo(destination, histResp).value
                 IN  result.value.historicalInfo = IF h.success THEN h.history ELSE NULL
              /\ LET h == getHotelRecommendations(destinationCoords.value, hotelResp).value
                 IN  result.value.hotels = IF h.success THEN h.hotels ELSE << >>

\* A plan with named places along the route although popular places and
\* hotels both failed.
C4_Witness ==
    /\ IsPlan /\ variant = "parallel"
    /\ AuxFailed("popularPlaces") /\ AuxFailed("hotels")
    /\ Len(result.value.placesAlongRoute) > 0

\* What the parallel getRouteAndDetails returns as a function of the
\* providers' answers alone.
ExpectedResult ==
    IF ~RouteOutcome.success
    THEN Return([success |-> FALSE, message |-> RouteOutcome.message])
    ELSE Return(TravelPlan(originCoords.value, destinationCoords.value, travelMode,
                           RouteOutcome,
                           getPopularPlaces(destination, placesResp).value,
                           getHistoricalInfo(destination, histResp).value,
                           getHotelRecommendations(destinationCoords.value, hotelResp).value))

\* C5: for fixed provider answers the result of the parallel
\* getRouteAndDetails is the same for every order in which the four launched
\* calls complete.
C5_CompletionOrderIrrelevant ==
    (Finished /\ variant = "parallel" /\ Started("route")) => result = ExpectedResult

\* A plan built after the calls completed in the reverse of launch order,
\* with popular places found.
C5_Witness ==
    /\ IsPlan /\ variant = "parallel"
    /\ CompletionOrder(events) = <<"hotels", "historicalInfo", "popularPlaces", "route">>
    /\ Len(result.value.popularPlaces) > 0

\* C6: no provider function ever throws to its caller.
C6_ProvidersNeverThrow ==
    /\ originCoords # Pending => ~originCoords.threw
    /\ destinationCoords # Pending => ~destinationCoords.threw
    /\ \A i \in 1..Len(Providers) :
           settled[Providers[i]] # Pending => ~settled[Providers[i]].threw


\* --------------------------------------------------------- the rendered text
RECURSIVE SplitLines(_)
\* The lines of a text: String.prototype.split("\n")
SplitLines(text) ==
    IF \A i \in 1..Len(text) : text[i] # "\n" THEN <<text>>
    ELSE LET k == CHOOSE i \in 1..Len(text) :
                      text[i] = "\n" /\ \A j \in 1..(i - 1) : text[j] # "\n"
         IN  <<SubSeq(text, 1, k - 1)>> \o SplitLines(SubSeq(text, k + 1, Len(text)))

HasLine(lines, l) == \E i \in 1..Len(lines) : lines[i] = l

FirstIndex(lines, l) ==
    CHOOSE i \in 1..Len(lines) : lines[i] = l /\ \A j \in 1..(i - 1) : lines[j] # l

\* The lines strictly between the first line a and the first line b.
Between(lines, a, b) == SubSeq(lines, FirstIndex(lines, a) + 1, FirstIndex(lines, b) - 1)

HistoricalHeader == S("Historical Information about ") \o destination \o S(":")
NotableHeader == S("Notable places along the route:")
PopularHeader == S("Popular places to visit at ") \o destination \o S(":")

FailureTexts ==
    {ErrorText("parallel"), ErrorText("sequential"), CoordsFailure.message, NoRoutesText,
     S("Failed to get route details from Mapbox.")}

HistoricalFailedInPlan ==
    /\ pc = "done" /\ variant = "parallel"
    /\ GotCoords(originCoords) /\ GotCoords(destinationCoords) /\ RouteSucceeded
    /\ AuxFailed("historicalInfo")

\* C7: when coordinates and routing succeed and the historical lookup fails,
\* the reply is a rendered plan with the route's duration and distance lines,
\* its historical section is exactly "No historical information available."
\* with no "Read more" line, and it is no failure or error text.
C7_HistoricalPlaceholder ==
    HistoricalFailedInPlan =>
        LET lines == SplitLines(reply.text)
        IN  /\ reply.text \notin FailureTexts
            /\ lines[1] = S("Travel Plan: ") \o origin \o S(" to ") \o destination
            /\ HasLine(lines, S("- Duration: ") \o settled["route"].value.duration)
            /\ HasLine(lines, S("- Distance: ") \o settled["route"].value.distance)
            /\ HasLine(lines, HistoricalHeader) /\ HasLine(lines, NotableHeader)
            /\ Between(lines, HistoricalHeader, NotableHeader)
                   = <<S("No historical information available."), << >>, << >> >>
            /\ \A i \in 1..Len(lines) : lines[i] = << >> \/ lines[i][1] # "Read more: "

\* The historical lookup failed because a request after the search failed.
C7_Witness ==
    /\ HistoricalFailedInPlan
    /\ histResp.search.kind = "ok" /\ histResp.content.kind = "error"

\* C8: every hotel entry of the places-search answer appears in the plan,
\* with rating "N/A" if the entry has no rating and its rating otherwise, and
\* category "Hotel" if the entry has no categories list or an empty one and
\* the first category's name otherwise.
C8_HotelFallbacks ==
    (IsPlan /\ variant = "parallel" /\ hotelResp.kind = "ok"
     /\ "results" \in DOMAIN hotelResp.data) =>
        LET entries == hotelResp.data.results
            hotels == result.value.hotels
        IN  /\ Len(hotels) = Len(entries)
            /\ \A i \in 1..Len(entries) :
                  /\ hotels[i].name = entries[i].name
                  /\ hotels[i].rating = IF "rating" \in DOMAIN entries[i]
                                        THEN entries[i].rating ELSE S("N/A")
                  /\ hotels[i].category =
                         IF "categories" \in DOMAIN entries[i] /\ Len(entries[i].categories) > 0
                         THEN entries[i].categories[1].name ELSE S("Hotel")

\* C9: the request the chat page sends is accepted by POST and forwarded to
\* the model, and the message shown for its response is the reply, not the
\* page's error message.
C9_UiRequestServed ==
    /\ (httpResponse # NULL /\ httpResponse.to = "ui") =>
           /\ httpResponse.ok
           /\ Len(modelCalls) > 0
    /\ \A i \in 1..Len(messages) :
           messages[i].role = "ai" => messages[i].content # ResponseError

NamedSteps(resp) ==
    LET steps == resp.data.routes[1].legs[1].steps
    IN  {i \in 1..Len(steps) : StepHasName(steps[i])}

\* C10: the "Notable places along the route" section lists min(5, n) items
\* for n places along the route: the first ones in route order, numbered
\* 1, 2, ... consecutively, while the plan keeps all n.
C10_NotableCappedAtFive ==
    (pc = "done" /\ IsPlan) =>
        LET lines == SplitLines(reply.text)
            places == result.value.placesAlongRoute
            section == Between(lines, NotableHeader, PopularHeader)
            items == SelectSeq(section, LAMBDA l : l # << >>)
        IN  /\ Len(places) = Cardinality(NamedSteps(routeResp))
            /\ Len(items) = Min(5, Len(places))
            /\ \A i \in 1..Len(items) :
                   SubSeq(items[i], 1, 5)
                       = <<ToString(i), ". ">> \o places[i].name \o S(": ")
                             \o places[i].instruction

\* A plan with more than five places along the route.
C10_Witness ==
    /\ pc = "done" /\ IsPlan
    /\ Len(result.value.placesAlongRoute) > 5


\* The place of an event in the log.
EventIndex(e) == CHOOSE i \in 1..Len(events) : events[i] = e

\* Event a is in the log, before event b.
Before(a, b) ==
    /\ \E i \in 1..Len(events) : events[i] = a
    /\ EventIndex(a) < EventIndex(b)

ProviderSet == {Providers[i] : i \in 1..Len(Providers)}

\* C11: in the parallel getRouteAndDetails the origin lookup ends before the
\* destination lookup starts; both lookups end before any of the four
\* provider calls starts; all four have started before any of them ends (so
\* before any result is looked at); and the function returns its plan or its
\* routing failure only after all four have ended.
C11_ParallelOrdering ==
    variant = "parallel" =>
        /\ Started("destination") =>
               Before(<<"end", "origin">>, <<"start", "destination">>)
        /\ \A p \in ProviderSet :
               Started(p) =>
                   /\ Before(<<"end", "origin">>, <<"start", p>>)
                   /\ Before(<<"end", "destination">>, <<"start", p>>)
        /\ \A p \in ProviderSet :
               Ended(p) => \A q \in ProviderSet : Before(<<"start", q>>, <<"end", p>>)
        /\ (Started("route") /\ result # Pending) =>
               /\ ~result.threw
               /\ \A p \in ProviderSet : Ended(p) /\ settled[p] # Pending

\* A routing failure returned once all four calls had ended, the route call
\* having ended first.
C11_Witness ==
    /\ variant = "parallel" /\ Finished /\ Started("route")
    /\ ~result.threw /\ ~result.value.success
    /\ CompletionOrder(events)[1] = "route"
    /\ \A p \in ProviderSet : Ended(p)


\* Search answers with 0..MaxResults results, every summary request either
\* answered or failing; a failing search; an answer without a result list.
SummaryLists(k) ==
    {[i \in 1..k |-> IF i \in bad THEN Err ELSE Summary(i)] : bad \in SUBSET (1..k)}

PlacesOfAllLengths ==
    {[search |-> Err, summaries |-> << >>],
     [search |-> Ok([query |-> [searchinfo |-> S("none")]]), summaries |-> << >>]}
    \cup UNION {{[search |-> SearchOf(k), summaries |-> s] : s \in SummaryLists(k)} :
                    k \in 0..MaxResults}

InitPlaces ==
    InitWith({"parallel", "sequential"}, {S("Paris")}, {S("Rome")}, {GeoBothFound},
             {RouteOf(<<Step(1, S("Main St"))>>)},
             PlacesOfAllLengths,
             {[search |-> HistSearch(<<7>>), content |-> HistContent, info |-> HistInfo]},
             {Ok([results |-> <<FullEntry(1)>>])})

SpecPlaces == InitPlaces /\ [][Next]_vars

\* The number of results of the search, 0 if it failed or has no result list.
SearchResultCount(resp) ==
    IF resp.search.kind = "ok" /\ "search" \in DOMAIN resp.search.data.query
    THEN Len(resp.search.data.query.search) ELSE 0

\* The search request fails, finds nothing, or one of the summary requests
\* for the top results fails.
PlacesLookupFails(resp) ==
    \/ resp.search.kind = "error"
    \/ SearchResultCount(resp) = 0
    \/ \E i \in 1..Min(5, SearchResultCount(resp)) : resp.summaries[i].kind = "error"

\* C12: getPopularPlaces returns at most 5 places, the i-th being the summary
\* of the i-th of the first min(5, k) search results; when the search fails
\* or is empty or one of those summary requests fails, it returns success
\* false and no list, and the plan is still built, with popularPlaces empty.
C12_TopFivePlacesOrFailure ==
    settled["popularPlaces"] # Pending =>
        LET r == settled["popularPlaces"]
        IN  /\ ~r.threw
            /\ r.value.success <=> ~PlacesLookupFails(placesResp)
            /\ r.value.success =>
                  LET places == r.value.places
                      found == placesResp.search.data.query.search
                  IN  /\ Len(places) <= 5
                      /\ Len(places) = Min(5, Len(found))
                      /\ \A i \in 1..Len(places) :
                            /\ places[i].title = found[i].title
                            /\ places[i].description = placesResp.summaries[i].data.extract
            /\ ~r.value.success =>
                  /\ DOMAIN r.value = {"success", "message"}
                  /\ Finished => (IsPlan /\ result.value.popularPlaces = << >>)

\* Five places out of more than five search results.
C12_Witness ==
    /\ Finished /\ IsPlan
    /\ SearchResultCount(placesResp) > 5
    /\ Len(result.value.popularPlaces) = 5


\* Routes of every length up to MaxSteps, the failing directions answers and
\* a route whose first step has no name property.
InitDirections ==
    InitWith({"parallel", "sequential"}, {S("Paris")}, {S("Rome")}, {GeoBothFound},
             RoutesOfAllLengths \cup RouteResponses,
             {[search |-> SearchOf(1), summaries |-> <<Summary(1)>>]},
             {[search |-> HistSearch(<<7>>), content |-> HistContent, info |-> HistInfo]},
             {Ok([results |-> <<FullEntry(1)>>])})

SpecDirections == InitDirections /\ [][Next]_vars

\* The steps of the first leg of the first route of a directions answer.
FirstLegSteps(resp) == resp.data.routes[1].legs[1].steps

\* A step carries a name that is not the empty string.
Named(step) == "name" \in DOMAIN step /\ Len(step.name) > 0

\* The position among the steps of the j-th named step.
NthNamed(steps, j) ==
    CHOOSE i \in 1..Len(steps) :
        /\ Named(steps[i])
        /\ Cardinality({h \in 1..i : Named(steps[h])}) = j

\* C13: a successful getRouteDetails over steps s1..sn joins the n
\* instructions, in step order, with " -> "; its places are exactly the steps
\* with a non-empty name, in step order; and every result is either the full
\* success record or a failure record with only a message.
C13_DirectionsAndPlaces ==
    settled["route"] # Pending =>
        LET r == settled["route"].value
        IN  /\ ~settled["route"].threw
            /\ ~r.success => DOMAIN r = {"success", "message"}
            /\ r.success =>
                  LET steps == FirstLegSteps(routeResp)
                      n == Len(steps)
                      d == r.directions
                  IN  /\ DOMAIN r = {"success", "duration", "distance", "directions", "places"}
                      /\ Len(d) = IF n = 0 THEN 0 ELSE 2 * n - 1
                      /\ \A i \in 1..n : <<d[2 * i - 1]>> = steps[i].maneuver.instruction
                      /\ \A i \in 1..(n - 1) : d[2 * i] = " -> "
                      /\ Len(r.places) = Cardinality({i \in 1..n : Named(steps[i])})
                      /\ Len(r.places) <= n
                      /\ \A j \in 1..Len(r.places) :
                            LET s == steps[NthNamed(steps, j)]
                            IN  /\ r.places[j].name = s.name
                                /\ r.places[j].instruction = s.maneuver.instruction
                                /\ r.places[j].distance = s.distance
                                /\ r.places[j].duration = s.duration

\* A route of at least four steps of which some, but not all, are named and
\* the first is not.
C13_Witness ==
    /\ settled["route"] # Pending /\ settled["route"].value.success
    /\ Len(FirstLegSteps(routeResp)) >= 4
    /\ ~Named(FirstLegSteps(routeResp)[1])
    /\ Len(settled["route"].value.places) >= 2
    /\ Len(settled["route"].value.places) < Len(FirstLegSteps(routeResp))

=============================================================================
